---- MODULE Spec2Model ----
(***************************************************************************)
(* Barrel-Volume-Analyst: the Row Reconciler (mergeBarrelData,             *)
(* src/utils/dataUtils.ts), the Volume Interpolator (VolumeCalculator's    *)
(* useMemo index and handleCalculate, src/components/VolumeCalculator.tsx) *)
(* and the shell (App's handlers, src/App.tsx, with the tables of          *)
(* ImageAnalyzer and DataManagement, src/components/EditableTable.tsx).    *)
(*                                                                         *)
(* Numbers are fixed-point: the integer n stands for n / Scale, so 20.5 is *)
(* 2050 and 201.3 is 20130.  Strings are sequences of one-character        *)
(* strings, so that Number(), parseFloat() and String() are computed from  *)
(* the characters.                                                         *)
(***************************************************************************)
EXTENDS Integers, Sequences, FiniteSets, TLC

VARIABLES
    pc,                 \* which operation the run is about and whether it has returned
    existingData,       \* mergeBarrelData: first argument
    newData,            \* mergeBarrelData: second argument
    returned,           \* mergeBarrelData: the value it returned
    barrelData,         \* VolumeCalculator prop
    selectedVolumeKey,  \* VolumeCalculator state (the target column)
    wetHeight,          \* VolumeCalculator state (text of the height input)
    volume,             \* VolumeCalculator state (the displayed result)
    calculationNote,    \* VolumeCalculator state (the displayed note)
    status,             \* which branch of handleCalculate produced the result
    loadingStep,        \* App state: '' | 'extracting' | 'verifying'
    error,              \* App state: the message of the failed attempt, or null
    analysisResult,     \* App state: the verified batch offered for confirmation
    editableData,       \* ImageAnalyzer state: the offered batch as the user edits it
    activeTab,          \* App state: 'analyzer' | 'data'
    extractedData,      \* handleAnalyze: what analyzeImageForTable returned, while it runs
    request,            \* the service call handleAnalyze is awaiting
    editingCell,        \* EditableCell state: the cell whose isEditing is true, or null
    currentValues       \* EditableCell state: currentValue of every mounted cell

\* the state of the shell
shellVars == <<loadingStep, error, analysisResult, editableData, activeTab,
               extractedData, request, editingCell, currentValues>>

vars == <<pc, existingData, newData, returned, barrelData, selectedVolumeKey,
          wetHeight, volume, calculationNote, status, loadingStep, error,
          analysisResult, editableData, activeTab, extractedData, request,
          editingCell, currentValues>>

----------------------------------------------------------------------------
(* Bounds of the model *)

\* rows of existingData and newData together
MaxRows == 3
\* rows of barrelData in the calculator's general inputs
MaxCalcRows == 3

\* toFixed(2): two decimals, so the fixed-point unit is 1/100
Scale == 100

----------------------------------------------------------------------------
(* JavaScript values: number | string | null, and undefined where a        *)
(* property is absent                                                      *)

Null == [t |-> "null"]
Undefined == [t |-> "undefined"]
Num(n) == [t |-> "number", n |-> n]
Str(s) == [t |-> "string", s |-> s]

\* a numeric result that may be NaN
NaN == [nan |-> TRUE, n |-> 0]
Fin(n) == [nan |-> FALSE, n |-> n]
isNaN(x) == x.nan

DigitChars == <<"0", "1", "2", "3", "4", "5", "6", "7", "8", "9">>
IsDigit(c) == \E i \in 1..Len(DigitChars) : DigitChars[i] = c
DigitVal(c) == (CHOOSE i \in 1..Len(DigitChars) : DigitChars[i] = c) - 1

\* number of consecutive digits of s from position i on
RECURSIVE DigitRun(_, _)
DigitRun(s, i) ==
    IF i > Len(s) \/ ~IsDigit(s[i]) THEN 0 ELSE 1 + DigitRun(s, i + 1)

\* the integer written by the k digits of s that start at position i
RECURSIVE DigitsInt(_, _, _)
DigitsInt(s, i, k) ==
    IF k = 0 THEN 0 ELSE DigitsInt(s, i, k - 1) * 10 + DigitVal(s[i + k - 1])

\* the fraction written by the digits of s at i, i+1 (at most two decimals
\* are representable), in units of 1/Scale
FracInt(s, i, k) ==
    IF k = 0 THEN 0
    ELSE IF k = 1 THEN DigitVal(s[i]) * (Scale \div 10)
    ELSE DigitVal(s[i]) * (Scale \div 10) + DigitVal(s[i + 1]) * (Scale \div 100)

\* The longest prefix of s that is a decimal literal  [-] digits [. digits]
\* or [-] . digits : its length (0 when there is none) and its value.
DecimalPrefix(s) ==
    LET neg  == Len(s) >= 1 /\ s[1] = "-"
        from == IF neg THEN 2 ELSE 1
        a    == DigitRun(s, from)
        dot  == from + a <= Len(s) /\ s[from + a] = "."
        b    == IF dot THEN DigitRun(s, from + a + 1) ELSE 0
        len  == IF a = 0 /\ b = 0 THEN 0
                ELSE (from - 1) + a + (IF dot THEN 1 + b ELSE 0)
        mag  == DigitsInt(s, from, a) * Scale + FracInt(s, from + a + 1, b)
    IN  [len |-> len, n |-> IF neg THEN 0 - mag ELSE mag]

\* Number(string): the whole text must be a literal; the empty text is 0
StringToNumber(s) ==
    IF s = <<>> THEN Fin(0)
    ELSE LET p == DecimalPrefix(s)
         IN  IF p.len = Len(s) THEN Fin(p.n) ELSE NaN

\* Number(value)
Number(v) ==
    IF v.t = "number" THEN Fin(v.n)
    ELSE IF v.t = "null" THEN Fin(0)
    ELSE IF v.t = "string" THEN StringToNumber(v.s)
    ELSE NaN

\* parseFloat(string): the longest literal prefix decides
parseFloat(s) ==
    LET p == DecimalPrefix(s)
    IN  IF p.len = 0 THEN NaN ELSE Fin(p.n)

\* the decimal digits of a natural number
RECURSIVE NatToChars(_)
NatToChars(n) ==
    IF n < 10 THEN <<DigitChars[n + 1]>>
    ELSE NatToChars(n \div 10) \o <<DigitChars[(n % 10) + 1]>>

\* Number.prototype.toString of n / Scale: shortest decimal text
NumberToString(n) ==
    LET m    == IF n < 0 THEN 0 - n ELSE n
        ip   == m \div Scale
        fr   == m % Scale
        d1   == fr \div (Scale \div 10)
        d2   == fr % (Scale \div 10)
        frac == IF fr = 0 THEN <<>>
                ELSE IF d2 = 0 THEN <<".", DigitChars[d1 + 1]>>
                ELSE <<".", DigitChars[d1 + 1], DigitChars[d2 + 1]>>
    IN  (IF n < 0 THEN <<"-">> ELSE <<>>) \o NatToChars(ip) \o frac

\* String(value)
String(v) ==
    IF v.t = "number" THEN NumberToString(v.n)
    ELSE IF v.t = "string" THEN v.s
    ELSE IF v.t = "null" THEN <<"n", "u", "l", "l">>
    ELSE <<"u", "n", "d", "e", "f", "i", "n", "e", "d">>

----------------------------------------------------------------------------
(* Rows: objects with ordered own keys, each holding a cell                *)

CellData(v, c) == [value |-> v, confidence |-> c]
Prop(k, cell) == [key |-> k, cell |-> cell]

\* Object.keys(row)
ObjectKeys(row) == [i \in 1..Len(row) |-> row[i].key]
HasKey(row, k) == \E i \in 1..Len(row) : row[i].key = k
\* row[k], for a key the row has
Get(row, k) == row[CHOOSE i \in 1..Len(row) : row[i].key = k].cell
\* row[k] = cell: an own key keeps its place, a new key is appended
Put(row, k, cell) ==
    IF HasKey(row, k)
    THEN [i \in 1..Len(row) |-> IF row[i].key = k THEN Prop(k, cell) ELSE row[i]]
    ELSE Append(row, Prop(k, cell))

----------------------------------------------------------------------------
(* mergeBarrelData                                                         *)

\* Map.prototype.has / get / set on a Map kept as its entries in insertion
\* order; keys are compared by SameValueZero, so 1 and "1" are two keys
MapHas(m, k) == \E i \in 1..Len(m) : m[i].key = k
MapGet(m, k) == m[CHOOSE i \in 1..Len(m) : m[i].key = k].row
MapSet(m, k, row) ==
    IF MapHas(m, k)
    THEN [i \in 1..Len(m) |-> IF m[i].key = k THEN [key |-> k, row |-> row] ELSE m[i]]
    ELSE Append(m, [key |-> k, row |-> row])
\* Array.from(map.values())
MapValues(m) == [i \in 1..Len(m) |-> m[i].row]

\* Object.keys(existingData[0])[0]; "" stands for undefined (both are falsy)
primaryKeyOf(existing) ==
    IF Len(existing[1]) = 0 THEN "" ELSE existing[1][1].key

\* the loop over existingData: index the rows whose key cell is non-null
RECURSIVE PopulateMap(_, _, _)
PopulateMap(existing, primaryKey, n) ==
    IF n = 0 THEN <<>>
    ELSE LET m   == PopulateMap(existing, primaryKey, n - 1)
             row == existing[n]
         IN  IF HasKey(row, primaryKey) /\ Get(row, primaryKey).value # Null
             THEN MapSet(m, Get(row, primaryKey).value, row)
             ELSE m

\* MergeCells without the test of line 35: every incoming cell replaces
RECURSIVE MergeCells_OverwriteAlways(_, _, _)
MergeCells_OverwriteAlways(mergedRow, newRow, n) ==
    IF n = 0 THEN mergedRow
    ELSE Put(MergeCells_OverwriteAlways(mergedRow, newRow, n - 1),
             newRow[n].key, newRow[n].cell)

\* the loop over the cells of newRow: a non-null cell replaces the cell of
\* mergedRow, a null cell leaves it
RECURSIVE MergeCells(_, _, _)
MergeCells(mergedRow, newRow, n) ==
    IF n = 0 THEN mergedRow
    ELSE LET r       == MergeCells(mergedRow, newRow, n - 1)
             cellKey == newRow[n].key
         IN  IF newRow[n].cell.value # Null
             THEN Put(r, cellKey, newRow[n].cell)
             ELSE r

\* the body of the loop over newData, for one newRow
MergeRow(m, primaryKey, newRow) ==
    LET key == IF HasKey(newRow, primaryKey)
               THEN Get(newRow, primaryKey).value ELSE Undefined
    IN  IF key = Null \/ key = Undefined THEN m
        ELSE IF MapHas(m, key)
        THEN MapSet(m, key, MergeCells(MapGet(m, key), newRow, Len(newRow)))
        ELSE MapSet(m, key, newRow)

\* the loop over newData
RECURSIVE MergeNew(_, _, _, _)
MergeNew(m, primaryKey, new, n) ==
    IF n = 0 THEN m
    ELSE MergeRow(MergeNew(m, primaryKey, new, n - 1), primaryKey, new[n])

\* mergedDataMap when the loops are over
mergedDataMap(existing, new) ==
    LET primaryKey == primaryKeyOf(existing)
    IN  MergeNew(PopulateMap(existing, primaryKey, Len(existing)),
                 primaryKey, new, Len(new))

\* Compare with the operands of the subtraction exchanged
Compare_Descending(primaryKey, a, b) ==
    LET valA == Number(Get(a, primaryKey).value)
        valB == Number(Get(b, primaryKey).value)
    IN  IF isNaN(valA) \/ isNaN(valB) THEN 0 ELSE valB.n - valA.n

\* the comparator given to sort: 0 when a key is not a number
Compare(primaryKey, a, b) ==
    LET valA == Number(Get(a, primaryKey).value)
        valB == Number(Get(b, primaryKey).value)
    IN  IF isNaN(valA) \/ isNaN(valB) THEN 0 ELSE valA.n - valB.n

\* arr with the element at position from moved to position to <= from
MoveTo(arr, from, to) ==
    [i \in 1..Len(arr) |->
        IF i < to \/ i > from THEN arr[i]
        ELSE IF i = to THEN arr[from]
        ELSE arr[i - 1]]

(* Array.prototype.sort leaves the order implementation-defined when the   *)
(* comparator is not a consistent ordering, which this one is not once a   *)
(* key is not a number.  The outcomes modelled are those of the two        *)
(* algorithms engines run on short arrays: binary insertion after run      *)
(* detection, and linear insertion.  On a consistent comparator both are   *)
(* the stable sort.                                                        *)

\* last index of the run that starts at 1, scanning from idx
RECURSIVE RunEnd(_, _, _, _)
RunEnd(pk, arr, idx, desc) ==
    IF idx > Len(arr) THEN Len(arr)
    ELSE LET order == Compare(pk, arr[idx], arr[idx - 1])
         IN  IF (desc /\ order >= 0) \/ (~desc /\ order < 0) THEN idx - 1
             ELSE RunEnd(pk, arr, idx + 1, desc)

\* where binary search puts pivot among arr[left .. right-1]
RECURSIVE BinarySearch(_, _, _, _, _)
BinarySearch(pk, arr, pivot, left, right) ==
    IF left >= right THEN left
    ELSE LET mid == left + ((right - left) \div 2)
         IN  IF Compare(pk, pivot, arr[mid]) < 0
             THEN BinarySearch(pk, arr, pivot, left, mid)
             ELSE BinarySearch(pk, arr, pivot, mid + 1, right)

RECURSIVE BinaryInsertion(_, _, _)
BinaryInsertion(pk, arr, start) ==
    IF start > Len(arr) THEN arr
    ELSE BinaryInsertion(pk,
             MoveTo(arr, start, BinarySearch(pk, arr, arr[start], 1, start)),
             start + 1)

SortBinaryInsertion(pk, arr) ==
    IF Len(arr) < 2 THEN arr
    ELSE LET desc == Compare(pk, arr[2], arr[1]) < 0
             run  == RunEnd(pk, arr, 3, desc)
             asc  == IF desc
                     THEN [i \in 1..Len(arr) |->
                             IF i <= run THEN arr[run + 1 - i] ELSE arr[i]]
                     ELSE arr
         IN  BinaryInsertion(pk, asc, run + 1)

\* where linear insertion puts arr[i], scanning down from j
RECURSIVE LinearPlace(_, _, _, _)
LinearPlace(pk, arr, i, j) ==
    IF j < 1 \/ Compare(pk, arr[j], arr[i]) <= 0 THEN j + 1
    ELSE LinearPlace(pk, arr, i, j - 1)

RECURSIVE LinearInsertion(_, _, _)
LinearInsertion(pk, arr, i) ==
    IF i > Len(arr) THEN arr
    ELSE LinearInsertion(pk, MoveTo(arr, i, LinearPlace(pk, arr, i, i - 1)), i + 1)

SortLinearInsertion(pk, arr) == LinearInsertion(pk, arr, 2)

\* the arrays sort can leave
sortedData(primaryKey, arr) ==
    {SortBinaryInsertion(primaryKey, arr), SortLinearInsertion(primaryKey, arr)}

\* mergeBarrelData without the shortcut of line 5: an empty existingData is
\* indexed and sorted like any other, on the first column of newData
mergeBarrelData_NoShortcut(existing, new) ==
    IF Len(new) = 0 THEN {existing}
    ELSE IF Len(existing) = 0
    THEN IF primaryKeyOf(new) = "" THEN {new}
         ELSE sortedData(primaryKeyOf(new),
                  MapValues(MergeNew(<<>>, primaryKeyOf(new), new, Len(new))))
    ELSE IF primaryKeyOf(existing) = "" THEN {new}
    ELSE sortedData(primaryKeyOf(existing), MapValues(mergedDataMap(existing, new)))

\* the values mergeBarrelData can return
mergeBarrelData(existing, new) ==
    IF Len(new) = 0 THEN {existing}
    ELSE IF Len(existing) = 0 THEN {new}
    ELSE IF primaryKeyOf(existing) = "" THEN {new}
    ELSE sortedData(primaryKeyOf(existing), MapValues(mergedDataMap(existing, new)))

----------------------------------------------------------------------------
(* Inputs of mergeBarrelData                                               *)

\* rows of a dataset merged with itself
MaxSameRows == 2

KeyColumn == "Mouille"
VolumeColumn == "V390"

MergeKeyValues ==
    {Null, Num(1 * Scale), Num(2 * Scale), Str(<<"1">>), Str(<<"x">>)}
MergeCellValues ==
    {CellData(Null, "high"), CellData(Num(5 * Scale), "high"),
     CellData(Num(7 * Scale), "user")}

\* rows with both columns, a row without the volume column, a row without
\* the key column and the empty object
MergeRows ==
    {<<Prop(KeyColumn, CellData(k, "high")), Prop(VolumeColumn, c)>> :
        k \in MergeKeyValues, c \in MergeCellValues}
    \cup {<<Prop(KeyColumn, CellData(Num(1 * Scale), "high"))>>,
          <<Prop(VolumeColumn, CellData(Num(5 * Scale), "high"))>>,
          <<>>}

CalcIdle ==
    /\ barrelData = <<>>
    /\ selectedVolumeKey = ""
    /\ wetHeight = <<>>
    /\ volume = Null
    /\ calculationNote = Null
    /\ status = "idle"

\* the shell as App's useState calls leave it (lines 25-42)
ShellIdle ==
    /\ loadingStep = ""
    /\ error = Null
    /\ analysisResult = Null
    /\ editableData = Null
    /\ activeTab = "analyzer"
    /\ extractedData = Null
    /\ request = Null
    /\ editingCell = Null
    /\ currentValues = <<>>

MergeInit ==
    /\ pc = "merge"
    /\ \/ \E n \in 0..MaxRows : \E a \in 0..n :
            /\ existingData \in [1..a -> MergeRows]
            /\ newData \in [1..(n - a) -> MergeRows]
       \/ /\ existingData \in UNION {[1..a -> MergeRows] : a \in 0..MaxSameRows}
          /\ newData = existingData
    /\ returned = <<>>
    /\ CalcIdle
    /\ ShellIdle

\* the arguments with "const mergedRow = existingRow" at line 31, no copy:
\* the writes of line 33 then land in the indexed row of existingData, which
\* ends as the row the index holds for its key
argumentsAfter_NoCopy(existing, new) ==
    IF Len(new) = 0 \/ Len(existing) = 0 \/ primaryKeyOf(existing) = ""
    THEN <<existing, new>>
    ELSE LET primaryKey == primaryKeyOf(existing)
             m == mergedDataMap(existing, new)
             KeyAt(i) == IF HasKey(existing[i], primaryKey)
                         THEN Get(existing[i], primaryKey).value ELSE Undefined
             Indexed(i) ==
                 /\ KeyAt(i) \notin {Null, Undefined}
                 /\ \A j \in (i + 1)..Len(existing) : KeyAt(j) # KeyAt(i)
         IN  <<[i \in 1..Len(existing) |->
                   IF Indexed(i) THEN MapGet(m, KeyAt(i)) ELSE existing[i]],
               new>>

\* the arguments when mergeBarrelData returns: the function only reads
\* them; the row it writes at line 33 is the copy made at line 31 and the
\* array it sorts at line 48 is the one Array.from made
argumentsAfter(existing, new) == <<existing, new>>

\* handleConfirmData's call: returned is what mergeBarrelData returns
Merge ==
    /\ pc = "merge"
    /\ \E r \in mergeBarrelData(existingData, newData) : returned' = r
    /\ existingData' = argumentsAfter(existingData, newData)[1]
    /\ newData' = argumentsAfter(existingData, newData)[2]
    /\ pc' = "merged"
    /\ UNCHANGED <<barrelData, selectedVolumeKey,
                   wetHeight, volume, calculationNote, status>>
    /\ UNCHANGED shellVars

SpecMerge == MergeInit /\ [][Merge]_vars

----------------------------------------------------------------------------
(* Properties of mergeBarrelData                                           *)

Columns == {KeyColumn, VolumeColumn}

\* the primary-key column of the call: the first column of the first row
PK ==
    IF Len(existingData) > 0 THEN primaryKeyOf(existingData)
    ELSE IF Len(newData) > 0 THEN primaryKeyOf(newData)
    ELSE ""

KeyValue(row) == IF HasKey(row, PK) THEN Get(row, PK).value ELSE Undefined
\* a value that holds a number: a number, or a text that writes one
IsNumeric(v) ==
    \/ v.t = "number"
    \/ v.t = "string" /\ v.s # <<>> /\ ~isNaN(StringToNumber(v.s))
NumericOf(v) == Number(v).n
\* the non-null primary-key values of a dataset
KeysOf(d) == {KeyValue(d[i]) : i \in 1..Len(d)} \ {Null, Undefined}
\* the last row of d with key k (the one the index holds)
LastRowWithKey(d, k) ==
    d[CHOOSE i \in 1..Len(d) :
        /\ KeyValue(d[i]) = k
        /\ \A j \in (i + 1)..Len(d) : KeyValue(d[j]) # k]

\* C1: the rows of merge(existing, incoming) that have a numeric primary-key
\* value appear in non-decreasing order of that value, for every pair of
\* inputs (an empty existing included, non-numeric keys interleaved or not).
C1_NumericKeysSorted ==
    pc = "merged" =>
        \A i, j \in 1..Len(returned) :
            (/\ i < j
             /\ IsNumeric(KeyValue(returned[i]))
             /\ IsNumeric(KeyValue(returned[j])))
            => NumericOf(KeyValue(returned[i])) <= NumericOf(KeyValue(returned[j]))

\* C2: no two rows of merge(existing, incoming) have primary-key values that
\* are non-null and numerically equal (a number and a text writing the same
\* number included).
C2_NumericKeysUnique ==
    pc = "merged" =>
        \A i, j \in 1..Len(returned) :
            (/\ i < j
             /\ IsNumeric(KeyValue(returned[i]))
             /\ IsNumeric(KeyValue(returned[j])))
            => NumericOf(KeyValue(returned[i])) # NumericOf(KeyValue(returned[j]))

\* C3: the primary-key values of the rows of merge(existing, incoming) are
\* exactly the non-null primary-key values of existing and of incoming, so
\* no row with a null or absent key is in the result.
C3_KeysAreUnionOfNonNull ==
    pc = "merged" =>
        {KeyValue(returned[i]) : i \in 1..Len(returned)}
            = KeysOf(existingData) \cup KeysOf(newData)

\* the rows of d with key k hold column c, and hold null there
AllNullAt(d, k, c) ==
    /\ \E i \in 1..Len(d) : KeyValue(d[i]) = k /\ HasKey(d[i], c)
    /\ \A i \in 1..Len(d) :
          KeyValue(d[i]) = k /\ HasKey(d[i], c) => Get(d[i], c).value = Null

\* the case of C4: key k is in both inputs, the indexed existing row holds
\* a non-null cell in column c and incoming holds null there
NullMeetsValue(k, c) ==
    /\ k \in KeysOf(existingData) \cap KeysOf(newData)
    /\ HasKey(LastRowWithKey(existingData, k), c)
    /\ Get(LastRowWithKey(existingData, k), c).value # Null
    /\ AllNullAt(newData, k, c)

\* C4: for a key present in both inputs and a column where the incoming
\* cell is null and the existing cell is non-null, the row for that key in
\* the result holds the existing cell, value and confidence.
C4_NullNeverReplaces ==
    pc = "merged" =>
        \A k \in KeysOf(existingData) \cap KeysOf(newData) : \A c \in Columns :
            NullMeetsValue(k, c) =>
                /\ \E j \in 1..Len(returned) : KeyValue(returned[j]) = k
                /\ \A j \in 1..Len(returned) :
                      KeyValue(returned[j]) = k =>
                          /\ HasKey(returned[j], c)
                          /\ Get(returned[j], c)
                                = Get(LastRowWithKey(existingData, k), c)

\* C4's case has happened in a merge that also took a row from incoming
C4_Witness ==
    /\ pc = "merged"
    /\ Len(returned) >= 2
    /\ Len(newData) >= 2
    /\ \E k \in KeysOf(existingData) \cap KeysOf(newData) :
          NullMeetsValue(k, VolumeColumn)

\* every row of d holds the primary-key column with a numeric value
AllKeysNumeric(d) == \A i \in 1..Len(d) : IsNumeric(KeyValue(d[i]))
\* no two rows of d hold the same key, and the keys do not decrease
KeysDistinctAndSorted(d) ==
    \A i, j \in 1..Len(d) :
        i < j => /\ KeyValue(d[i]) # KeyValue(d[j])
                 /\ NumericOf(KeyValue(d[i])) <= NumericOf(KeyValue(d[j]))

\* C5 as stated: for every dataset D whose primary-key values are all
\* non-null and numeric, merge(D, D) is D.
C5_MergeSelfIsSelf ==
    (pc = "merged" /\ existingData = newData /\ AllKeysNumeric(existingData))
        => returned = existingData

\* C5 as amended: for every dataset D whose primary-key values are all
\* non-null and numeric, pairwise different and in non-decreasing numeric
\* order, merge(D, D) is D: same rows, same cells, same order.
C5_MergeSortedSelfIsSelf ==
    (/\ pc = "merged"
     /\ existingData = newData
     /\ AllKeysNumeric(existingData)
     /\ KeysDistinctAndSorted(existingData))
        => returned = existingData

C5_Witness ==
    /\ pc = "merged"
    /\ existingData = newData
    /\ Len(existingData) >= 2
    /\ AllKeysNumeric(existingData)
    /\ KeysDistinctAndSorted(existingData)
    /\ \E i \in 1..Len(existingData) :
          /\ HasKey(existingData[i], VolumeColumn)
          /\ Get(existingData[i], VolumeColumn).value = Null
    /\ returned = existingData

\* C6: merge(D, []) returns D and merge([], D) returns D, the same rows in
\* the same order.
C6_EmptyIsIdentity ==
    pc = "merged" =>
        /\ newData = <<>> => returned = existingData
        /\ existingData = <<>> => returned = newData

\* merge([], D) has returned a D that a merge with the index would change
C6_Witness ==
    /\ pc = "merged"
    /\ existingData = <<>>
    /\ Len(newData) >= 2
    /\ ~KeysDistinctAndSorted(newData)
    /\ returned = newData

----------------------------------------------------------------------------
(* VolumeCalculator: the index built by useMemo                            *)

\* h.toLowerCase().includes('mouill'), on the column names of the model
ContainsMouill(h) == h = KeyColumn

\* headers.find(h => ...includes('mouill')) || headers[0]; "" is undefined
potentialHeightKey(data) ==
    LET headers == ObjectKeys(data[1])
    IN  IF \E i \in 1..Len(headers) : ContainsMouill(headers[i])
        THEN headers[CHOOSE i \in 1..Len(headers) :
                        /\ ContainsMouill(headers[i])
                        /\ \A j \in 1..(i - 1) : ~ContainsMouill(headers[j])]
        ELSE IF Len(headers) > 0 THEN headers[1]
        ELSE ""

\* headers.filter(h => h !== potentialHeightKey)
IsVolumeKey(h, heightKey) == h # heightKey
potentialVolumeKeys(data) ==
    LET heightKey == potentialHeightKey(data)
        Keep(h) == IsVolumeKey(h, heightKey)
    IN  SelectSeq(ObjectKeys(data[1]), Keep)

\* row[potentialHeightKey].value on a row without that column is a
\* TypeError, thrown while the component renders
useMemoThrows(data) ==
    /\ Len(data) > 0
    /\ \E i \in 1..Len(data) : ~HasKey(data[i], potentialHeightKey(data))

\* the forEach of lines 25-30: the rows under Number(height cell), a later
\* row replacing an earlier one of the same height
RECURSIVE BuildDataMap(_, _, _)
BuildDataMap(data, heightKey, n) ==
    IF n = 0 THEN <<>>
    ELSE LET m      == BuildDataMap(data, heightKey, n - 1)
             height == Number(Get(data[n], heightKey).value)
         IN  IF ~isNaN(height) THEN MapSet(m, height.n, data[n]) ELSE m

\* what useMemo returns
isDisabled(data) == Len(data) = 0
heightKeyOf(data) == IF isDisabled(data) THEN "" ELSE potentialHeightKey(data)
volumeKeysOf(data) == IF isDisabled(data) THEN <<>> ELSE potentialVolumeKeys(data)
dataMapOf(data) ==
    IF isDisabled(data) THEN <<>>
    ELSE BuildDataMap(data, potentialHeightKey(data), Len(data))

----------------------------------------------------------------------------
(* VolumeCalculator: handleCalculate                                       *)

\* Math.floor and Math.ceil of n / Scale
Floor(n) == (n \div Scale) * Scale
Ceil(n) == 0 - Floor(0 - n)
Abs(n) == IF n < 0 THEN 0 - n ELSE n

\* two digits
TwoDigits(n) == <<DigitChars[(n \div 10) + 1], DigitChars[(n % 10) + 1]>>
\* the text of m >= 0 hundredths with two decimals, after its sign
FixedText(negative, m) ==
    (IF negative THEN <<"-">> ELSE <<>>)
        \o NatToChars(m \div Scale) \o <<".">> \o TwoDigits(m % Scale)

\* x.toFixed(2) of x = p / (Scale * Scale): the nearest hundredth.  When the
\* decimal value is exactly half way the double that stands for it lies on
\* either side, so both neighbours are outcomes.
toFixed(p) ==
    LET m == Abs(p)
        q == m \div Scale
        r == m % Scale
    IN  IF 2 * r < Scale THEN {FixedText(p < 0, q)}
        ELSE IF 2 * r > Scale THEN {FixedText(p < 0, q + 1)}
        ELSE {FixedText(p < 0, q), FixedText(p < 0, q + 1)}

\* lowerVolume + (volumeDifference * heightFraction), in 1 / (Scale * Scale)
interpolatedVolume(lowerVolume, upperVolume, height, lowerHeight) ==
    LET heightFraction   == height - lowerHeight
        volumeDifference == upperVolume - lowerVolume
    IN  lowerVolume * Scale + volumeDifference * heightFraction

\* the texts handleCalculate shows, kept whole
Message(text) == Str(<<text>>)
Note(text, args) == [text |-> text, args |-> args]

Result(st, vol, note) == [status |-> st, volume |-> vol, note |-> note]
\* reading .value of a missing cell: TypeError out of the handler
Fault == Result("fault", Null, Null)

\* ClosestRow with diff <= minDiff: the last of equally close rows wins
RECURSIVE ClosestRow_LastWins(_, _, _, _)
ClosestRow_LastWins(data, heightKey, height, n) ==
    IF n = 0 THEN 0
    ELSE LET best      == ClosestRow_LastWins(data, heightKey, height, n - 1)
             rowHeight == parseFloat(String(Get(data[n], heightKey).value))
             Diff(i)   == Abs(parseFloat(String(Get(data[i], heightKey).value)).n
                              - height)
         IN  IF isNaN(rowHeight) THEN best
             ELSE IF best = 0 THEN n
             ELSE IF Abs(rowHeight.n - height) <= Diff(best) THEN n
             ELSE best

\* the scan of lines 98-107: index of the closest row, 0 when no row has a
\* height that parseFloat reads; a later row wins only when strictly closer
RECURSIVE ClosestRow(_, _, _, _)
ClosestRow(data, heightKey, height, n) ==
    IF n = 0 THEN 0
    ELSE LET best      == ClosestRow(data, heightKey, height, n - 1)
             rowHeight == parseFloat(String(Get(data[n], heightKey).value))
             Diff(i)   == Abs(parseFloat(String(Get(data[i], heightKey).value)).n
                              - height)
         IN  IF isNaN(rowHeight) THEN best
             ELSE IF best = 0 THEN n
             ELSE IF Abs(rowHeight.n - height) < Diff(best) THEN n
             ELSE best

\* Case 1, lines 62-67
ExactMatch(data, key, height) ==
    LET row == MapGet(dataMapOf(data), height)
    IN  IF ~HasKey(row, key) THEN {Fault}
        ELSE {Result("exact", Get(row, key).value,
                     Note("Exact value found in table.", <<>>))}

\* Case 2, lines 76-91
Interpolate(data, key, height) ==
    LET lowerHeight == Floor(height)
        upperHeight == Ceil(height)
        lowerRow    == MapGet(dataMapOf(data), lowerHeight)
        upperRow    == MapGet(dataMapOf(data), upperHeight)
    IN  IF ~HasKey(lowerRow, key) \/ ~HasKey(upperRow, key) THEN {Fault}
        ELSE LET lowerVolume == Number(Get(lowerRow, key).value)
                 upperVolume == Number(Get(upperRow, key).value)
             IN  IF isNaN(lowerVolume) \/ isNaN(upperVolume)
                 THEN {Result("non-numeric", Message("Data not numeric"),
                              Note("Cannot interpolate non-numeric values.", <<>>))}
                 ELSE {Result("interpolated", Str(text),
                              Note("Interpolated between _ and _.",
                                   <<NumberToString(lowerHeight),
                                     NumberToString(upperHeight)>>)) :
                          text \in toFixed(interpolatedVolume(lowerVolume.n,
                                       upperVolume.n, height, lowerHeight))}

\* the else branch, lines 93-114
Nearest(data, key, height) ==
    LET heightKey == heightKeyOf(data)
        closest   == ClosestRow(data, heightKey, height, Len(data))
    IN  IF closest = 0
        THEN {Result("not-found", Message("No match found"), Null)}
        ELSE IF ~HasKey(data[closest], key) THEN {Fault}
        ELSE {Result("nearest", Get(data[closest], key).value,
                     Note("No exact match. Showing value for closest height: _.",
                          <<String(Get(data[closest], heightKey).value)>>))}

\* handleCalculate without the isNaN test of lines 57-60: NaN is no key of
\* the index and is closer to no row, so the scan of lines 93-114 ends with
\* closestRow = null
handleCalculate_NoInputCheck(data, key, text) ==
    IF isDisabled(data) \/ heightKeyOf(data) = "" \/ key = ""
          \/ Len(dataMapOf(data)) = 0
    THEN {Result("unavailable", Message("N/A"), Null)}
    ELSE LET height == parseFloat(text)
         IN  IF isNaN(height)
             THEN {Result("not-found", Message("No match found"), Null)}
             ELSE IF MapHas(dataMapOf(data), height.n)
             THEN ExactMatch(data, key, height.n)
             ELSE IF /\ MapHas(dataMapOf(data), Floor(height.n))
                     /\ MapHas(dataMapOf(data), Ceil(height.n))
             THEN Interpolate(data, key, height.n)
             ELSE Nearest(data, key, height.n)

\* the results handleCalculate can leave, for the props and state given
handleCalculate(data, key, text) ==
    IF isDisabled(data) \/ heightKeyOf(data) = "" \/ key = ""
          \/ Len(dataMapOf(data)) = 0
    THEN {Result("unavailable", Message("N/A"), Null)}
    ELSE LET height == parseFloat(text)
         IN  IF isNaN(height)
             THEN {Result("invalid-input", Message("Invalid input"), Null)}
             ELSE IF MapHas(dataMapOf(data), height.n)
             THEN ExactMatch(data, key, height.n)
             ELSE IF /\ MapHas(dataMapOf(data), Floor(height.n))
                     /\ MapHas(dataMapOf(data), Ceil(height.n))
             THEN Interpolate(data, key, height.n)
             ELSE Nearest(data, key, height.n)

----------------------------------------------------------------------------
(* Inputs of the calculator                                                *)

HeightValues == {Null, Num(0), Num(1 * Scale), Num(2 * Scale)}
VolumeValues == {Null, Num(10 * Scale), Num(11 * Scale + 31)}

\* rows with both columns; a row whose volume is a text and a row whose
\* height is a text with a numeric prefix; a row without the target column
\* and a row without the height column; a row whose volume column comes
\* before its height column
CalcRows ==
    {<<Prop(KeyColumn, CellData(h, "high")), Prop(VolumeColumn, CellData(v, "high"))>> :
        h \in HeightValues, v \in VolumeValues}
    \cup {<<Prop(KeyColumn, CellData(Num(1 * Scale), "high")),
            Prop(VolumeColumn, CellData(Str(<<"x">>), "high"))>>,
          <<Prop(KeyColumn, CellData(Str(<<"1", "x">>), "high")),
            Prop(VolumeColumn, CellData(Num(10 * Scale), "high"))>>,
          <<Prop(KeyColumn, CellData(Num(1 * Scale), "high"))>>,
          <<Prop(VolumeColumn, CellData(Num(10 * Scale), "high"))>>,
          <<Prop(VolumeColumn, CellData(Num(10 * Scale), "high")),
            Prop(KeyColumn, CellData(Num(1 * Scale), "high"))>>}

QueryTexts ==
    {<<"0">>, <<"0", ".", "5">>, <<"0", ".", "3">>, <<"1">>,
     <<"1", ".", "7">>, <<"3">>, <<"x">>}

\* a row  height -> volume
HV(h, v) ==
    <<Prop(KeyColumn, CellData(h, "high")), Prop(VolumeColumn, CellData(v, "high"))>>

\* the datasets and queries of the spec's examples
Table20_30 == <<HV(Num(20 * Scale), Num(200 * Scale)), HV(Num(30 * Scale), Num(300 * Scale))>>
Table20_21 == <<HV(Num(20 * Scale), Num(200 * Scale)), HV(Num(21 * Scale), Num(201 * Scale + 30))>>
Table10_50 == <<HV(Num(10 * Scale), Num(100 * Scale)), HV(Num(50 * Scale), Num(500 * Scale))>>
Table25 == <<HV(Num(25 * Scale), Num(220 * Scale))>>
ExampleTables == {Table20_30, Table20_21, Table10_50, Table25}
ExampleQueries == {<<"2", "5">>, <<"2", "0", ".", "5">>, <<"1", "2">>}

QueriesFor(data) == IF data \in ExampleTables THEN ExampleQueries ELSE QueryTexts

MergeIdle ==
    /\ existingData = <<>>
    /\ newData = <<>>
    /\ returned = <<>>

CalcInit ==
    /\ pc = "mount"
    /\ barrelData \in UNION {[1..n -> CalcRows] : n \in 0..MaxCalcRows}
                        \cup ExampleTables
    /\ selectedVolumeKey = ""
    /\ wetHeight = <<>>
    /\ volume = Null
    /\ calculationNote = Null
    /\ status = "idle"
    /\ MergeIdle
    /\ ShellIdle

----------------------------------------------------------------------------
(* The calculator's steps                                                  *)

\* the first render: useMemo, then the effect of lines 35-44
Render ==
    /\ pc = "mount"
    /\ IF useMemoThrows(barrelData)
       THEN /\ pc' = "crashed"
            /\ status' = "fault"
            /\ UNCHANGED <<selectedVolumeKey, wetHeight, volume, calculationNote>>
       ELSE /\ pc' = "ready"
            /\ selectedVolumeKey' =
                  IF Len(volumeKeysOf(barrelData)) > 0
                  THEN IF \E i \in 1..Len(volumeKeysOf(barrelData)) :
                              volumeKeysOf(barrelData)[i] = selectedVolumeKey
                       THEN selectedVolumeKey
                       ELSE volumeKeysOf(barrelData)[1]
                  ELSE ""
            /\ volume' = Null
            /\ wetHeight' = <<>>
            /\ calculationNote' = Null
            /\ UNCHANGED status
    /\ UNCHANGED <<existingData, newData, returned, barrelData>>
    /\ UNCHANGED shellVars

\* onChange of the height input
setWetHeight ==
    /\ pc = "ready"
    /\ \E text \in QueriesFor(barrelData) : wetHeight' = text
    /\ pc' = "typed"
    /\ UNCHANGED <<existingData, newData, returned, barrelData,
                   selectedVolumeKey, volume, calculationNote, status>>
    /\ UNCHANGED shellVars

\* onSubmit of the form: setCalculationNote(null), then the branch taken; a
\* TypeError leaves volume as it was
Calculate ==
    /\ pc \in {"ready", "typed"}
    /\ \E r \in handleCalculate(barrelData, selectedVolumeKey, wetHeight) :
          /\ status' = r.status
          /\ calculationNote' = r.note
          /\ volume' = IF r.status = "fault" THEN volume ELSE r.volume
    /\ pc' = "done"
    /\ UNCHANGED <<existingData, newData, returned, barrelData,
                   selectedVolumeKey, wetHeight>>
    /\ UNCHANGED shellVars

SpecCalc == CalcInit /\ [][Render \/ setWetHeight \/ Calculate]_vars

----------------------------------------------------------------------------
(* Properties of the calculator                                            *)

\* the height column of the dataset: the first column of its first row
HeightColumn ==
    IF Len(barrelData) > 0 /\ Len(barrelData[1]) > 0 THEN barrelData[1][1].key ELSE ""
HeightOf(row) ==
    IF HasKey(row, HeightColumn) THEN Get(row, HeightColumn).value ELSE Undefined
TargetOf(row) ==
    IF HasKey(row, selectedVolumeKey) THEN Get(row, selectedVolumeKey).value
    ELSE Undefined
\* the row holds a number in its height cell, and that number is h
AtHeight(row, h) == IsNumeric(HeightOf(row)) /\ NumericOf(HeightOf(row)) = h
RowsAt(h) == {i \in 1..Len(barrelData) : AtHeight(barrelData[i], h)}
NumericRows == {i \in 1..Len(barrelData) : IsNumeric(HeightOf(barrelData[i]))}

\* a calculation has returned for a target column and a query that is a number
Calculated ==
    /\ pc = "done"
    /\ selectedVolumeKey # ""
    /\ ~isNaN(parseFloat(wetHeight))
Query == parseFloat(wetHeight).n

\* text writes, with two decimals, a hundredth nearest to x / (Scale * Scale)
IsRoundedTo2(text, x) ==
    /\ Len(text) >= 4
    /\ text[Len(text) - 2] = "."
    /\ ~isNaN(StringToNumber(text))
    /\ 2 * Abs(StringToNumber(text).n * Scale - x) <= Scale

\* C7 as stated: with height 20 -> 200 and height 30 -> 300, the query 25
\* returns status interpolated with value 250.00.
C7_Interpolates20_30 ==
    (pc = "done" /\ barrelData = Table20_30 /\ wetHeight = <<"2", "5">>)
        => /\ status = "interpolated"
           /\ volume = Str(<<"2", "5", "0", ".", "0", "0">>)

\* C7 as amended: with the rows height 20 -> 200 and height 30 -> 300 and
\* the query 25 there are no rows at floor(25) = ceil(25) = 25, so the
\* result is status nearest with the value 200 of the row at height 20, the
\* first of the two equally close rows, and the note names height 20.
C7_Nearest20 ==
    (pc = "done" /\ barrelData = Table20_30 /\ wetHeight = <<"2", "5">>)
        => /\ status = "nearest"
           /\ volume = Num(200 * Scale)
           /\ calculationNote =
                 Note("No exact match. Showing value for closest height: _.",
                      <<<<"2", "0">>>>)

C7_Witness ==
    /\ pc = "done"
    /\ barrelData = Table20_30
    /\ selectedVolumeKey = VolumeColumn
    /\ wetHeight = <<"2", "5">>
    /\ status = "nearest"

\* C8: for a query h with no exact match, when rows exist at floor(h) and
\* ceil(h) and their target values are numeric, the result has status
\* interpolated, its value is lowerVolume + (upperVolume - lowerVolume) *
\* (h - floor(h)) rounded to 2 decimals for a row at floor(h) and a row at
\* ceil(h), and the note names floor(h) and ceil(h).
C8_InterpolatesBetweenFloorAndCeil ==
    (/\ Calculated
     /\ RowsAt(Query) = {}
     /\ RowsAt(Floor(Query)) # {}
     /\ RowsAt(Ceil(Query)) # {}
     /\ \A i \in RowsAt(Floor(Query)) \cup RowsAt(Ceil(Query)) :
           IsNumeric(TargetOf(barrelData[i])))
        => /\ status = "interpolated"
           /\ volume.t = "string"
           /\ \E lo \in RowsAt(Floor(Query)) : \E hi \in RowsAt(Ceil(Query)) :
                 IsRoundedTo2(volume.s,
                     NumericOf(TargetOf(barrelData[lo])) * Scale
                       + (NumericOf(TargetOf(barrelData[hi]))
                            - NumericOf(TargetOf(barrelData[lo])))
                         * (Query - Floor(Query)))
           /\ calculationNote =
                 Note("Interpolated between _ and _.",
                      <<NumberToString(Floor(Query)), NumberToString(Ceil(Query))>>)

\* the first row, in dataset order, whose numeric height is closest to h
FirstClosest(h) ==
    CHOOSE i \in NumericRows :
        /\ \A j \in NumericRows :
              Abs(NumericOf(HeightOf(barrelData[i])) - h)
                 <= Abs(NumericOf(HeightOf(barrelData[j])) - h)
        /\ \A j \in NumericRows :
              j < i => Abs(NumericOf(HeightOf(barrelData[i])) - h)
                          < Abs(NumericOf(HeightOf(barrelData[j])) - h)

\* C9: with no exact match and no rows at both floor and ceil of the query,
\* the result has status nearest with the target value of the row whose
\* numeric height is closest to the query, the first such row winning
\* ties, and the note names that row's height.
C9_NearestIsFirstClosest ==
    (/\ Calculated
     /\ RowsAt(Query) = {}
     /\ RowsAt(Floor(Query)) = {} \/ RowsAt(Ceil(Query)) = {}
     /\ NumericRows # {})
        => /\ status = "nearest"
           /\ volume = TargetOf(barrelData[FirstClosest(Query)])
           /\ calculationNote =
                 Note("No exact match. Showing value for closest height: _.",
                      <<String(HeightOf(barrelData[FirstClosest(Query)]))>>)

\* C10: if some row's height cell numerically equals the query, the result
\* has status exact with the target value of such a row, whatever rows
\* could serve interpolation or nearest-neighbor.
C10_ExactMatchWins ==
    (Calculated /\ RowsAt(Query) # {})
        => /\ status = "exact"
           /\ \E i \in RowsAt(Query) : volume = TargetOf(barrelData[i])

\* the cell is present and holds no number: a text that writes none, or null
NotNumericCell(v) == v # Undefined /\ ~IsNumeric(v)
\* rows stand at height h, and each of them holds no number in the target
NoNumberAt(h) ==
    /\ RowsAt(h) # {}
    /\ \A i \in RowsAt(h) : NotNumericCell(TargetOf(barrelData[i]))

\* C11: when no row stands at the query height, rows stand at its floor and
\* at its ceiling, and a bounding row's target cell holds no number (a text
\* that is not a number, or null), the calculation returns status
\* non-numeric and no interpolated value.
C11_NonNumericBound ==
    ( /\ Calculated
      /\ RowsAt(Query) = {}
      /\ RowsAt(Floor(Query)) # {} /\ RowsAt(Ceil(Query)) # {}
      /\ \A i \in RowsAt(Floor(Query)) \cup RowsAt(Ceil(Query)) :
            TargetOf(barrelData[i]) # Undefined
      /\ NoNumberAt(Floor(Query)) \/ NoNumberAt(Ceil(Query)) )
    => /\ status = "non-numeric"
       /\ volume = Message("Data not numeric")

\* C12: for a non-empty dataset, a target column and a query that is a
\* number, when no row holds a number in its height cell the calculation
\* returns status not-found, and no other status.
C12_NoNumericHeightNotFound ==
    ( /\ Calculated
      /\ Len(barrelData) > 0
      /\ NumericRows = {} )
    => status = "not-found"

\* the text of the query is not a number
InvalidQuery == isNaN(parseFloat(wetHeight))
\* the column the calculator reads heights from holds a number in some row
SomeHeightIsNumber ==
    \E i \in 1..Len(barrelData) :
        /\ HasKey(barrelData[i], heightKeyOf(barrelData))
        /\ IsNumeric(Get(barrelData[i], heightKeyOf(barrelData)).value)

Statuses ==
    {"exact", "interpolated", "nearest", "non-numeric", "not-found",
     "invalid-input", "unavailable"}

\* C14: every invocation of the calculation, for every dataset (rows that
\* lack the target column or the height column included), every target
\* column and every query, ends in one of the seven statuses and raises no
\* fault.
C14_EndsInAStatus == pc = "done" => status \in Statuses

\* the row the calculator's index holds at height h, when it holds one
IndexedAt(h) == MapGet(dataMapOf(barrelData), h)
\* the row has a height cell, and the cell is null
NullHeight(row) ==
    /\ HasKey(row, heightKeyOf(barrelData))
    /\ Get(row, heightKeyOf(barrelData)).value = Null

\* C20: a row whose height cell is null is never the row of an exact match
\* and never a bounding row of an interpolation; in particular the query 0
\* does not return the value of a null-height row with status exact.
C20_NullHeightNeverUsed ==
    Calculated =>
       /\ status = "exact" => ~NullHeight(IndexedAt(Query))
       /\ status \in {"interpolated", "non-numeric"} =>
             /\ ~NullHeight(IndexedAt(Floor(Query)))
             /\ ~NullHeight(IndexedAt(Ceil(Query)))

\* C17: for every non-empty dataset, whatever its column names, the height
\* column the calculator uses is the first column of the dataset's first
\* row, which is the column the merge uses as primary key.
C17_HeightColumnIsPrimaryKey ==
    (pc \in {"ready", "typed", "done"} /\ Len(barrelData) > 0)
    => /\ heightKeyOf(barrelData) = HeightColumn
       /\ heightKeyOf(barrelData) = primaryKeyOf(barrelData)

----------------------------------------------------------------------------
(* The shell: App's handlers and the two editable tables                   *)

\* rows of a batch the services return
MaxBatchRows == 2

\* a dataset held in a state that can also be null
Array(rows) == [t |-> "array", rows |-> rows]

ShellKeyValues == {Null, Num(1 * Scale), Num(2 * Scale)}
ShellRows == {HV(k, Num(5 * Scale)) : k \in ShellKeyValues}
\* what analyzeImageForTable and verifyTableData can return
Batches == UNION {[1..n -> ShellRows] : n \in 0..MaxBatchRows}
\* what they can throw: both services throw Error objects only
Thrown == {[isError |-> TRUE, message |-> "API_KEY environment variable not set"],
           [isError |-> TRUE, message |-> "AI response is not a valid array of objects."]}
\* the texts typed in a cell editor
EditTexts == {<<"5">>}

\* let currentStep: 'extracting' until extraction has returned
currentStep == IF pc = "awaitVerify" THEN "verifying" ELSE "extracting"

\* the catch block of handleAnalyze
ErrorText(step, e) ==
    IF e.isError
    THEN Note("An error occurred during the AI _ step: _",
              <<IF step = "extracting" THEN "extraction" ELSE "verification",
                e.message>>)
    ELSE Message("An unknown error occurred.")

\* EditableCell.handleSave: the value it would store
finalValue(currentValue) ==
    LET numericValue == Number(currentValue)
    IN  IF isNaN(numericValue) THEN Str(String(currentValue))
        ELSE Num(numericValue.n)

\* EditableTable.handleCellSave: the table given to onDataChange
handleCellSave(data, rowIndex, header, newCellData) ==
    [rIdx \in 1..Len(data) |->
        IF rIdx = rowIndex THEN Put(data[rIdx], header, newCellData)
        ELSE data[rIdx]]

\* EditableCell.handleSave on the cell (rowIndex, header) of data: the table
\* after the commit
handleSave(data, rowIndex, header, currentValue) ==
    LET cellData == Get(data[rowIndex], header)
    IN  IF finalValue(currentValue) = cellData.value THEN data
        ELSE handleCellSave(data, rowIndex, header,
                            CellData(finalValue(currentValue), "user"))

\* the editor's text when it commits: the cell's value as the editor opened
\* with it, or a text typed over it
CurrentValues(cellData) == {cellData.value} \cup {Str(s) : s \in EditTexts}

\* the cells the table renders: a cell per row and per column of the first
\* row (headers = Object.keys(data[0]))
EditableCells(data) ==
    {rc \in (1..Len(data)) \X {ObjectKeys(data[1])[c] : c \in 1..Len(data[1])} :
        HasKey(data[rc[1]], rc[2])}

\* the tables one committed cell edit can leave
Edits(data) ==
    UNION {{handleSave(data, rc[1], rc[2], v) :
               v \in CurrentValues(Get(data[rc[1]], rc[2]))} :
           rc \in EditableCells(data)}

ShellInit ==
    /\ pc = "idle"
    /\ MergeIdle
    /\ CalcIdle
    /\ ShellIdle

----------------------------------------------------------------------------
(* The shell's steps                                                       *)

\* "Analyze Page": handleAnalyze up to its first await.  The button is
\* rendered while no batch is offered and disabled while a step is loading.
handleAnalyze ==
    /\ pc = "idle"
    /\ activeTab = "analyzer"
    /\ analysisResult = Null
    /\ loadingStep = ""
    /\ loadingStep' = "extracting"
    /\ error' = Null
    /\ analysisResult' = Null
    /\ extractedData' = Null
    /\ request' = [call |-> "analyzeImageForTable", extractedData |-> Null]
    /\ pc' = "awaitAnalyze"
    /\ UNCHANGED <<editableData, activeTab, barrelData>>

\* analyzeImageForTable resolves: handleAnalyze up to its second await
analyzeImageForTableReturns ==
    /\ pc = "awaitAnalyze"
    /\ \E d \in Batches :
          /\ extractedData' = Array(d)
          /\ request' = [call |-> "verifyTableData", extractedData |-> Array(d)]
    /\ loadingStep' = "verifying"
    /\ pc' = "awaitVerify"
    /\ UNCHANGED <<error, analysisResult, editableData, activeTab, barrelData>>

\* analyzeImageForTableThrows without the finally block
analyzeImageForTableThrows_NoFinally ==
    /\ pc = "awaitAnalyze"
    /\ \E e \in Thrown : error' = ErrorText(currentStep, e)
    /\ request' = Null
    /\ pc' = "idle"
    /\ UNCHANGED <<loadingStep, extractedData, analysisResult, editableData,
                   activeTab, barrelData>>

\* analyzeImageForTable rejects: catch, then finally
analyzeImageForTableThrows ==
    /\ pc = "awaitAnalyze"
    /\ \E e \in Thrown : error' = ErrorText(currentStep, e)
    /\ loadingStep' = ""
    /\ request' = Null
    /\ pc' = "idle"
    /\ UNCHANGED <<extractedData, analysisResult, editableData, activeTab,
                   barrelData>>

\* verifyTableData resolves: setAnalysisResult, then finally; ImageAnalyzer's
\* effect copies the result into editableData when it is mounted
verifyTableDataReturns ==
    /\ pc = "awaitVerify"
    /\ \E verifiedData \in Batches :
          /\ analysisResult' = Array(verifiedData)
          /\ editableData' = IF activeTab = "analyzer" THEN Array(verifiedData)
                             ELSE Null
    /\ loadingStep' = ""
    /\ request' = Null
    /\ extractedData' = Null
    /\ pc' = "idle"
    /\ UNCHANGED <<error, activeTab, barrelData>>

\* verifyTableDataThrows with the extracted batch offered all the same
verifyTableDataThrows_OffersExtracted ==
    /\ pc = "awaitVerify"
    /\ \E e \in Thrown : error' = ErrorText(currentStep, e)
    /\ analysisResult' = extractedData
    /\ editableData' = IF activeTab = "analyzer" THEN extractedData ELSE Null
    /\ loadingStep' = ""
    /\ request' = Null
    /\ extractedData' = Null
    /\ pc' = "idle"
    /\ UNCHANGED <<activeTab, barrelData>>

\* verifyTableData rejects: catch, then finally
verifyTableDataThrows ==
    /\ pc = "awaitVerify"
    /\ \E e \in Thrown : error' = ErrorText(currentStep, e)
    /\ loadingStep' = ""
    /\ request' = Null
    /\ extractedData' = Null
    /\ pc' = "idle"
    /\ UNCHANGED <<analysisResult, editableData, activeTab, barrelData>>

\* "Confirm & Add to Dataset": ImageAnalyzer.handleConfirmClick hands
\* editableData to handleConfirmData
handleConfirmData ==
    /\ activeTab = "analyzer"
    /\ editableData # Null
    /\ barrelData' \in mergeBarrelData(barrelData, editableData.rows)
    /\ analysisResult' = Null
    /\ editableData' = Null
    /\ UNCHANGED <<pc, loadingStep, error, activeTab, extractedData, request>>

\* "Discard"
handleDiscardData ==
    /\ activeTab = "analyzer"
    /\ editableData # Null
    /\ analysisResult' = Null
    /\ editableData' = Null
    /\ UNCHANGED <<pc, loadingStep, error, activeTab, extractedData, request,
                   barrelData>>

\* "Clear All Data", answered yes; DataManagement renders the button while
\* the dataset has rows
handleClearAllData ==
    /\ activeTab = "data"
    /\ Len(barrelData) > 0
    /\ barrelData' = <<>>
    /\ analysisResult' = Null
    /\ UNCHANGED <<pc, loadingStep, error, editableData, activeTab,
                   extractedData, request>>

\* a tab button: ImageAnalyzer is unmounted on the data tab, and mounts with
\* editableData taken from analysisResult
setActiveTab ==
    /\ \E tabId \in {"analyzer", "data"} :
          /\ tabId # activeTab
          /\ activeTab' = tabId
          /\ editableData' = IF tabId = "analyzer" THEN analysisResult ELSE Null
    /\ UNCHANGED <<pc, loadingStep, error, analysisResult, extractedData,
                   request, barrelData>>

\* a cell edit committed in DataManagement's table: onDataChange = setBarrelData
editStoredCell ==
    /\ activeTab = "data"
    /\ Len(barrelData) > 0
    /\ barrelData' \in Edits(barrelData)
    /\ UNCHANGED <<pc, loadingStep, error, analysisResult, editableData,
                   activeTab, extractedData, request>>

\* a cell edit committed in ImageAnalyzer's table: onDataChange = setEditableData
editOfferedCell ==
    /\ activeTab = "analyzer"
    /\ editableData # Null
    /\ Len(editableData.rows) > 0
    /\ \E data \in Edits(editableData.rows) : editableData' = Array(data)
    /\ UNCHANGED <<pc, loadingStep, error, analysisResult, activeTab,
                   extractedData, request, barrelData>>

\* the calculator and the merge's own variables are not the shell's, and
\* the handlers do not reach into the cells' editors
ShellFrame ==
    UNCHANGED <<existingData, newData, returned, selectedVolumeKey, wetHeight,
                volume, calculationNote, status, editingCell, currentValues>>

ShellNext ==
    \/ handleAnalyze /\ ShellFrame
    \/ analyzeImageForTableReturns /\ ShellFrame
    \/ analyzeImageForTableThrows /\ ShellFrame
    \/ verifyTableDataReturns /\ ShellFrame
    \/ verifyTableDataThrows /\ ShellFrame
    \/ handleConfirmData /\ ShellFrame
    \/ handleDiscardData /\ ShellFrame
    \/ handleClearAllData /\ ShellFrame
    \/ setActiveTab /\ ShellFrame
    \/ editStoredCell /\ ShellFrame
    \/ editOfferedCell /\ ShellFrame

SpecShell == ShellInit /\ [][ShellNext]_vars

\* the services answer every call, with a value or with a failure
SpecShellFair ==
    /\ SpecShell
    /\ WF_vars((analyzeImageForTableReturns \/ analyzeImageForTableThrows) /\ ShellFrame)
    /\ WF_vars((verifyTableDataReturns \/ verifyTableDataThrows) /\ ShellFrame)

----------------------------------------------------------------------------
(* Properties of the shell                                                 *)

\* an attempt ends in failure with this step: handleAnalyze returns and an
\* error message is set
FailureEnds == pc # "idle" /\ pc' = "idle" /\ error' # Null

\* C16: when the extraction or the verification stage fails, the attempt
\* ends with no batch offered for confirmation (the analysis result is
\* empty, never the extracted batch that was not verified), and no step of
\* the attempt merges into the stored dataset or changes it.
C16_FailureOffersNothing ==
    [][/\ FailureEnds => (analysisResult' = Null /\ editableData' = Null)
       /\ pc' # pc => barrelData' = barrelData]_vars

\* a verification has failed on a batch with rows, over a stored dataset
\* with rows
C16_Witness ==
    /\ pc = "idle"
    /\ \E e \in Thrown : error = ErrorText("verifying", e)
    /\ analysisResult = Null
    /\ Len(barrelData) > 0

\* the primary-key value of a stored row: its cell in the first column of
\* the first row
StoredKey(row) == HeightOf(row)

\* C18: in every state of the shell reached from the empty dataset by
\* confirmed merges, cell edits (primary-key cells included) and clear-all,
\* no two rows of the stored dataset hold the same non-null primary-key
\* value.
C18_StoredKeysUnique ==
    \A i, j \in 1..Len(barrelData) :
        (i < j /\ StoredKey(barrelData[i]) \notin {Null, Undefined})
        => StoredKey(barrelData[i]) # StoredKey(barrelData[j])

\* C19: the verifying stage is entered only once the extraction has
\* returned, and is given what the extraction returned; and every attempt
\* whose service calls return or fail ends with the loading step back at ''.
C19_VerifyAfterExtractThenIdle ==
    /\ [](loadingStep = "verifying"
            => /\ extractedData # Null
               /\ request = [call |-> "verifyTableData",
                             extractedData |-> extractedData])
    /\ [][loadingStep' = "verifying" /\ loadingStep # "verifying"
            => /\ loadingStep = "extracting"
               /\ request.call = "analyzeImageForTable"
               /\ extractedData' # Null]_vars
    /\ (loadingStep # "") ~> (loadingStep = "")

\* a verification is under way on a full batch, after an attempt that failed
\* left its rows out of the stored dataset
C19_Witness ==
    /\ loadingStep = "verifying"
    /\ request.call = "verifyTableData"
    /\ Len(extractedData.rows) = MaxBatchRows
    /\ Len(barrelData) > 0

----------------------------------------------------------------------------
(* The cell editor: EditableCell, step by step, in DataManagement's table  *)

\* rows of the edited table
MaxEditRows == 2

\* rows of the edited table; their cells hold no reading, a number, a text
\* that is no number and a text that writes a number
EditRows ==
    {HV(Null, Null), HV(Num(1 * Scale), Str(<<"x">>)),
     HV(Num(2 * Scale), Str(<<"1">>))}
\* the texts onChange can leave in the input
TypedTexts == EditTexts

Cell(rowIndex, header) == [t |-> "cell", rowIndex |-> rowIndex, header |-> header]
\* useState(cellData.value) of every cell when it mounts
MountedValues(data) ==
    [rc \in EditableCells(data) |-> Get(data[rc[1]], rc[2]).value]
\* the key of a row's <tr> and of its cells: String(row.Mouille?.value)
RowKeyText(row) ==
    IF HasKey(row, KeyColumn) THEN String(Get(row, KeyColumn).value)
    ELSE <<"u", "n", "d", "e", "f", "i", "n", "e", "d">>
\* the cells' currentValue after a commit turned data into saved: the cells
\* of a row whose key text changed are mounted anew
AfterSave(data, saved, values) ==
    [rc \in EditableCells(saved) |->
        IF RowKeyText(saved[rc[1]]) # RowKeyText(data[rc[1]])
        THEN Get(saved[rc[1]], rc[2]).value
        ELSE values[rc]]

EditInit ==
    /\ pc = "table"
    /\ barrelData \in UNION {[1..n -> EditRows] : n \in 1..MaxEditRows}
    /\ currentValues = MountedValues(barrelData)
    /\ editingCell = Null
    /\ activeTab = "data"
    /\ loadingStep = ""
    /\ error = Null
    /\ analysisResult = Null
    /\ editableData = Null
    /\ extractedData = Null
    /\ request = Null
    /\ selectedVolumeKey = ""
    /\ wetHeight = <<>>
    /\ volume = Null
    /\ calculationNote = Null
    /\ status = "idle"
    /\ MergeIdle

\* what the editor's steps leave alone
EditFrame ==
    UNCHANGED <<pc, existingData, newData, returned, selectedVolumeKey,
                wetHeight, volume, calculationNote, status, loadingStep, error,
                analysisResult, editableData, activeTab, extractedData, request>>

\* onDoubleClick of a cell: setIsEditing(true)
startEditing ==
    /\ editingCell = Null
    /\ \E rc \in EditableCells(barrelData) : editingCell' = Cell(rc[1], rc[2])
    /\ UNCHANGED <<barrelData, currentValues>>
    /\ EditFrame

\* onChange of the input
setCurrentValue ==
    /\ editingCell # Null
    /\ \E text \in TypedTexts :
          currentValues' =
              [currentValues EXCEPT ![<<editingCell.rowIndex, editingCell.header>>]
                                        = Str(text)]
    /\ UNCHANGED <<barrelData, editingCell>>
    /\ EditFrame

\* onBlur, or Enter: handleSave, whose onSave reaches setBarrelData
commitEdit ==
    /\ editingCell # Null
    /\ LET rc    == <<editingCell.rowIndex, editingCell.header>>
           saved == handleSave(barrelData, rc[1], rc[2], currentValues[rc])
       IN  /\ barrelData' = saved
           /\ currentValues' = AfterSave(barrelData, saved, currentValues)
    /\ editingCell' = Null
    /\ EditFrame

\* Escape: setCurrentValue(cellData.value), setIsEditing(false)
cancelEdit ==
    /\ editingCell # Null
    /\ LET rc == <<editingCell.rowIndex, editingCell.header>>
       IN  currentValues' =
               [currentValues EXCEPT ![rc] = Get(barrelData[rc[1]], rc[2]).value]
    /\ editingCell' = Null
    /\ UNCHANGED barrelData
    /\ EditFrame

SpecEdit ==
    EditInit /\ [][startEditing \/ setCurrentValue \/ commitEdit \/ cancelEdit]_vars

----------------------------------------------------------------------------
(* Properties of the cell editor                                           *)

\* the text the input shows for a currentValue (value={currentValue ?? ''})
\* and the text a cell shows for its value (String(cellData.value ?? ''))
ShownText(v) == IF v = Null THEN <<>> ELSE String(v)
\* the editor is open and its text is the text the cell shows
TextUnchanged ==
    /\ editingCell # Null
    /\ ShownText(currentValues[<<editingCell.rowIndex, editingCell.header>>])
          = ShownText(Get(barrelData[editingCell.rowIndex], editingCell.header).value)
\* the step closes the editor
EditorCloses == editingCell # Null /\ editingCell' = Null

\* C21: committing a cell edit whose text was not changed leaves the dataset
\* as it was, for every cell value, null included.
C21_UnchangedTextNoChange ==
    [][(TextUnchanged /\ EditorCloses) => barrelData' = barrelData]_vars

====
